---- MODULE Spec2Model ----
(***************************************************************************)
(* AgriGuard: the telemetry link of the dashboard (src/unnamed/part_000),  *)
(* the GPS dashboard's chunk decoder and history stores                    *)
(* (src/unnamed/part_001) and the serial-to-WebSocket relay                *)
(* (src/unnamed/part_002).                                                 *)
(*                                                                         *)
(* Every asynchronous function is cut at its awaits: the code between two  *)
(* awaits is one atomic action.  A React state read inside a handler is    *)
(* the value captured by the closure when the handler was invoked; a ref   *)
(* (readerRef, plantingMarkers, ...) is read at the moment of use.         *)
(* The Web Serial port, the streams and the map are the environment: a     *)
(* call on them succeeds or raises as the environment decides, within what *)
(* the API allows (an open port cannot be opened again, a port whose       *)
(* readable stream is locked cannot be closed, a released reader cannot be *)
(* cancelled).                                                             *)
(***************************************************************************)
EXTENDS Integers, Sequences, FiniteSets, TLC

VARIABLES
    \* ---- AgriGuardDashboard (part_000) ----
    serialPort,         \* useState: the connected port, or NoPort
    arduinoStatus,      \* useState<ArduinoStatus>
    sensorData,         \* useState<SensorData>
    isReading,          \* useState(false)
    readerRef,          \* useRef: the reader of loop i, or 0 for null
    readableClosedRef,  \* useRef: the pipeTo promise of loop i, or 0 for null
    conn,               \* connectArduino invocations: [pc, cIsReading, baud]
    loop,               \* readSerialData invocations: [pc, awaited]
    disc,               \* the disconnectArduino invocation: [pc, awaited]
    portSt,             \* environment: the port is closed/opening/opened/closing
    readerSt,           \* environment: reader i is none/locked/cancelled/released
    pipeSt,             \* environment: pipeTo i is none/piping/settled
    emitted,            \* notifications raised by the last step
    portCalls,          \* port.open / port.close calls made by the last step
    lastRead,           \* the chunk the last step decoded, or NoChunk
    lastStep,           \* the handler step taken last
    started,            \* connectArduino invocations that got past the guards
    granted,            \* environment: the ports granted to the site, oldest first
    device,             \* environment: the port that portSt and the streams describe
    \* ---- which of the repository's programs is running ----
    program,            \* "dashboard" (part_000), "gps" (part_001), "relay" (part_002)
    \* ---- Dashboard with the GPS map (part_001) ----
    arduinoData,        \* useState<ArduinoData>
    gpsSensorData,      \* useState: sensorData of part_001
    robotPosition,      \* useState: {lat, lng}
    robotPath,          \* useState: the path store
    plantingLogs,       \* useState: the planting log, newest first
    isPlanting,         \* useState(false)
    gpsData,            \* useState: {isFixed, satellites, accuracy}
    plantingMarkers,    \* useRef: the marker store, oldest first
    onMap,              \* environment: the markers whose map is not null
    mapCalls,           \* the markers the last step called setMap(null) on
    mapInstance,        \* useRef: the map is initialised
    gpsSerialPort,      \* useState: serialPort of part_001
    check,              \* the checkSerialConnection call in flight: [pc, pos]
    intervalPos,        \* the robotPosition the read interval's closure holds
    gconn,              \* the Connect Arduino click in flight: [pc, boardType]
    reads,              \* lines answered so far; also the clock of Date.now()
    fixes,              \* history: positions decoded since the path was cleared
    planted,            \* history: log entries created since the log was cleared
    isDetecting,        \* useState: isDetecting of part_001
    detect,             \* the runDetection calls: [pc] each
    usbOpen,            \* the GPS dashboard's port is open (port.readable)
    \* ---- the relay (part_002) ----
    currentData,        \* let currentData
    relayPort,          \* environment: the relay's SerialPort is opening/open
    sent,               \* messages handed to broadcastToClients by the last step
    relayClock,         \* the millisecond new Date() and Date.now() last returned
    clients,            \* wss.clients, in insertion order
    readyState,         \* client.readyState of every WebSocket
    delivered,          \* the messages client.send accepted in the last step, per client
    raised,             \* the client whose send raised in the last step, or 0
    crashed,            \* an exception left a handler uncaught: the process ended
    retryTimers,        \* pending setTimeout(..., 5000) of the 'error' handler
    tries,              \* initializeSerial calls made by those timers
    written,            \* what the last step passed to serialPort.write
    reply               \* the response the last step gave its REST caller

linkVars == <<serialPort, arduinoStatus, sensorData, isReading, readerRef,
              readableClosedRef, conn, loop, disc, portSt, readerSt, pipeSt,
              started, granted, device>>

\* what the last step did
stepVars == <<emitted, portCalls, lastRead, lastStep>>

gpsVars == <<arduinoData, gpsSensorData, robotPosition, robotPath,
             plantingLogs, isPlanting, gpsData, plantingMarkers, onMap,
             mapCalls, mapInstance, gpsSerialPort, check, intervalPos, gconn>>

historyVars == <<reads, fixes, planted>>

detectVars == <<isDetecting, detect, usbOpen>>

relayVars == <<currentData, relayPort, sent, relayClock, clients, readyState,
               delivered, raised, crashed, retryTimers, tries, written, reply>>

vars == <<linkVars, stepVars, program, gpsVars, historyVars, relayVars,
          detectVars>>

\* a step of the dashboard of part_000
LinkRuns == program = "dashboard"
            /\ UNCHANGED <<program, gpsVars, historyVars, relayVars,
                           detectVars>>

----------------------------------------------------------------------------
(* Text of the line protocol.  A token is a tag and the characters that    *)
(* follow its colon; a chunk is the sequence of tokens one read delivers.  *)

DigitChars == {"0", "1", "2", "3", "4", "5", "6", "7", "8", "9"}

DigitVal(c) ==
    CASE c = "0" -> 0 [] c = "1" -> 1 [] c = "2" -> 2 [] c = "3" -> 3
      [] c = "4" -> 4 [] c = "5" -> 5 [] c = "6" -> 6 [] c = "7" -> 7
      [] c = "8" -> 8 [] c = "9" -> 9

\* [\d.-] of /TEMP:([\d.-]+)/ and of the GPS sub-fields
FloatChars == DigitChars \cup {".", "-"}

\* the longest prefix of s made of characters of cls: what (\d+) or ([\d.-]+)
\* captures when the pattern matches at s
RECURSIVE Prefix(_, _)
Prefix(s, cls) ==
    IF s = <<>> \/ Head(s) \notin cls THEN <<>>
    ELSE <<Head(s)>> \o Prefix(Tail(s), cls)

\* parseInt of a string of decimal digits
RECURSIVE ParseInt(_)
ParseInt(s) ==
    IF s = <<>> THEN 0
    ELSE 10 * ParseInt(SubSeq(s, 1, Len(s) - 1)) + DigitVal(s[Len(s)])

Tok(tag, val) == [tag |-> tag, val |-> val]

NoMatch == <<"nomatch">>

\* data.match(/TAG:(\d+)/): the capture at the first place of the chunk where
\* the pattern matches, or NoMatch
RECURSIVE MatchTag(_, _, _)
MatchTag(chunk, tag, cls) ==
    IF chunk = <<>> THEN NoMatch
    ELSE IF Head(chunk).tag = tag /\ Prefix(Head(chunk).val, cls) # <<>>
         THEN Prefix(Head(chunk).val, cls)
         ELSE MatchTag(Tail(chunk), tag, cls)

NoChunk == <<Tok("none", <<>>)>>

----------------------------------------------------------------------------
(* AgriGuardDashboard (src/unnamed/part_000): connectArduino,              *)
(* readSerialData and disconnectArduino over one serial device.            *)

\* connectArduino invocations that get past the guards in one run
MaxConnects == 2

\* the invocations that may overlap (a double click), each with the read
\* loop, the reader and the pipe it creates
ConnIds == {1, 2}

NoPort == "null"

\* the Arduino, the one device the filters of requestPort let the user pick
ThePort == "port"

\* a serial device the site was granted without those filters
OtherPort == "other"

\* the grants the site may hold when the dashboard loads
GrantedAtStart == { <<>>, <<ThePort, OtherPort>> }

\* '--', the initial value of every sensor reading
Unknown == <<"-", "-">>

BaudOptions == <<9600, 115200, 57600, 19200>>

DisconnectedStatus ==
    [board |-> "Unknown Board", connection |-> "DISCONNECTED", battery |-> 0,
     detected |-> FALSE, signalStrength |-> 0, uptime |-> "0h 0m",
     mcuTemp |-> 0, charging |-> FALSE, voltage |-> 0, runtime |-> "0h"]

\* the status connectArduino sets after a successful open; isUSBPowered is
\* info.usbVendorId !== undefined
ConnectedStatus(boardName, isUSBPowered) ==
    [board |-> boardName, connection |-> "CONNECTED",
     battery |-> IF isUSBPowered THEN 100 ELSE 0,
     detected |-> TRUE, signalStrength |-> 100, uptime |-> "0h 0m",
     mcuTemp |-> 0, charging |-> isUSBPowered, voltage |-> 5,
     runtime |-> IF isUSBPowered THEN "Unlimited (USB)" ELSE "0h"]

InitialSensorData ==
    [temperature |-> Unknown, humidity |-> Unknown, soilMoisture |-> Unknown,
     lightIntensity |-> Unknown, soilTemp |-> Unknown, airQuality |-> Unknown,
     phLevel |-> Unknown, obstacleDistance |-> Unknown,
     dht22Status |-> "Offline", soilSensorStatus |-> "Offline",
     lightSensorStatus |-> "Offline", phSensorStatus |-> "Offline",
     obstacleSensorStatus |-> "Offline"]

\* what port.getInfo() may report: usbVendorId (-1 when undefined) and
\* usbProductId
PortInfos ==
    { [usbVendorId |-> 9025, usbProductId |-> 67],
      [usbVendorId |-> -1, usbProductId |-> 0] }

\* detectBoardType with no product name, then ARDUINO_BOARDS[boardType]
BoardName(usbProductId) ==
    CASE usbProductId = 67 -> "Arduino Uno"
      [] usbProductId \in {54, 32822} -> "Arduino Leonardo"
      [] usbProductId \in {55, 32823} -> "Arduino Micro"
      [] usbProductId \in {66, 16} -> "Arduino Mega 2560"
      [] OTHER -> "Unknown Board"

IdleConn == [pc |-> "idle", cIsReading |-> FALSE, baud |-> 0, port |-> NoPort]

IdleLoop == [pc |-> "idle", awaited |-> 0]

IdleDisc == [pc |-> "idle", awaited |-> 0]

LinkInit ==
    /\ serialPort = NoPort
    /\ arduinoStatus = DisconnectedStatus
    /\ sensorData = InitialSensorData
    /\ isReading = FALSE
    /\ readerRef = 0
    /\ readableClosedRef = 0
    /\ conn = [i \in ConnIds |-> IdleConn]
    /\ loop = [i \in ConnIds |-> IdleLoop]
    /\ disc = IdleDisc
    /\ portSt = "closed"
    /\ readerSt = [i \in ConnIds |-> "none"]
    /\ pipeSt = [i \in ConnIds |-> "none"]
    /\ emitted = <<>>
    /\ portCalls = <<>>
    /\ lastRead = NoChunk
    /\ lastStep = "init"
    /\ started = 0
    /\ granted \in IF program = "dashboard" THEN GrantedAtStart ELSE {<<>>}
    /\ device = ThePort

\* ---- the environment's answers ----
\* reader i is "none" (no such reader, or nobody holds it any more), "locked"
\* (reading), "closed" (cancelled or at end of stream, lock still held) or
\* "dead" (errored, or its lock released); pipe i is "piping" while pipeTo i
\* holds port.readable locked, and "none" before and after.

\* port.open() is rejected at once unless the port is closed
OpenCanStart(ps) == ps = "closed"

\* port.close() is rejected at once unless the port is open and no pipeTo
\* holds its readable stream locked
CloseCanStart(ps) == ps = "opened" /\ \A j \in ConnIds : pipeSt[j] # "piping"

\* reader.cancel() can succeed only while the reader holds its lock and its
\* stream has not errored
CancelCanSucceed(st, r) == r # 0 /\ st[r] \in {"locked", "closed"}

\* reader r after a cancel that succeeded: its stream is closed
ReaderAfterCancel(st, r) == [st EXCEPT ![r] = "closed"]

\* the pipe that fed reader r ends with it
PipeAfterCancel(pp, r) == [pp EXCEPT ![r] = "none"]

\* a reader nobody refers to any more is forgotten
Forget(st, r) ==
    IF r # 0 /\ loop[r].pc \in {"idle", "done"} THEN [st EXCEPT ![r] = "none"]
    ELSE st

\* try { readerRef.current.releaseLock(); } catch {} and then
\* readerRef.current = null: on null the TypeError is swallowed; ok is
\* whether releaseLock itself returned
ReaderAfterRelease(st, ok) ==
    IF readerRef = 0 THEN st
    ELSE Forget(IF ok /\ st[readerRef] # "none"
                THEN [st EXCEPT ![readerRef] = "dead"] ELSE st, readerRef)

\* ---- readSerialData: decoding one chunk ----

\* setArduinoStatus(prev => ({ ...prev, battery: parseInt(batteryMatch[1]) }))
StatusAfterChunk(st, chunk) ==
    LET batteryMatch == MatchTag(chunk, "BAT", DigitChars)
    IN  IF batteryMatch # NoMatch
        THEN [st EXCEPT !.battery = ParseInt(batteryMatch)]
        ELSE st

\* mutant of OnlineAfterUpdate: an update turns an Online soil sensor Offline
OnlineAfterUpdateFlipping(sd) ==
    [sd EXCEPT !.dht22Status = "Online",
               !.soilSensorStatus = IF @ = "Online" THEN "Offline" ELSE "Online"]

\* the sensor statuses set together with any sensor update
OnlineAfterUpdate(sd) ==
    [sd EXCEPT !.dht22Status = "Online", !.soilSensorStatus = "Online"]

\* sensorUpdates merged into sensorData
SensorAfterChunk(sd, chunk) ==
    LET tempMatch == MatchTag(chunk, "TEMP", FloatChars)
        humMatch == MatchTag(chunk, "HUM", DigitChars)
        soilMatch == MatchTag(chunk, "SOIL", DigitChars)
        merged ==
            [sd EXCEPT
               !.temperature = IF tempMatch # NoMatch THEN tempMatch ELSE @,
               !.humidity = IF humMatch # NoMatch THEN humMatch ELSE @,
               !.soilMoisture = IF soilMatch # NoMatch THEN soilMatch ELSE @]
    IN  IF tempMatch # NoMatch \/ humMatch # NoMatch \/ soilMatch # NoMatch
        THEN OnlineAfterUpdate(merged)
        ELSE sd

\* the chunks a read of the dashboard's port may deliver
LinkChunks ==
    { <<Tok("BAT", <<"8", "7">>), Tok("TEMP", <<"2", "4", ".", "5">>)>>,
      <<Tok("???", <<>>)>> }

\* ---- connectArduino ----

\* mutant of ConnectGuard: the guard on serialPort is missing
ConnectGuardMissing(sp) == FALSE

\* if (serialPort) { 'Already Connected'; return; }
ConnectGuard(sp) == sp # NoPort

Quiet == /\ emitted' = <<>>
         /\ portCalls' = <<>>
         /\ lastRead' = NoChunk

\* slot i holds no invocation, no read loop and no stream anybody refers to
FreeSlot(i) ==
    /\ conn[i].pc \in {"idle", "done"}
    /\ loop[i].pc \in {"idle", "done"}
    /\ readerRef # i
    /\ readableClosedRef # i
    /\ disc.awaited # i
    /\ \A j \in ConnIds : loop[j].awaited # i

\* await port.open({ baudRate: BaudOptions[k] }) called in invocation i on
\* port p, which is in state ps
OpenCall(i, k, ps, p) ==
    /\ portSt' = IF OpenCanStart(ps) THEN "opening" ELSE ps
    /\ conn' = [conn EXCEPT
                  ![i].pc = IF OpenCanStart(ps) THEN "opening" ELSE "openRejected",
                  ![i].baud = k,
                  ![i].port = p]
    /\ portCalls' = <<[call |-> "open", baud |-> BaudOptions[k], port |-> p]>>

\* nothing is in flight on the device and its port is closed
LinkAtRest(i) ==
    /\ portSt = "closed"
    /\ serialPort = NoPort
    /\ disc.pc = "idle"
    /\ \A j \in ConnIds : /\ j # i => conn[j].pc \in {"idle", "done"}
                          /\ loop[j].pc \in {"idle", "done"}

\* invocation i goes on with port p.  One device is followed at a time: a
\* port other than the one in use is taken up only when the link is at rest.
TakePort(i, p) ==
    /\ p # device => LinkAtRest(i)
    /\ device' = p

\* the elements of a sequence
Range(g) == {g[k] : k \in 1..Len(g)}

\* the grants after the user picked p in the chooser: a port not granted
\* before is the latest grant
GrantedAfterPick(g, p) == IF p \in Range(g) THEN g ELSE Append(g, p)

\* catch (openErr) { try { await port.close(); } catch (e) {} } called with
\* the port in state ps; the environment may reject a close it could start
CloseCall(i, ps) ==
    \E ok \in BOOLEAN :
        /\ ok => CloseCanStart(ps)
        /\ portSt' = IF ok THEN "closing" ELSE ps
        /\ conn' = [conn EXCEPT ![i].pc = IF ok THEN "closing" ELSE "closeRejected"]
        /\ portCalls' = <<[call |-> "close", baud |-> 0, port |-> conn[i].port]>>

\* connectArduino up to await requestPort; the handler is taken as callable
\* in every state (the guards inside it do not rely on which button is shown)
ConnectInvoke ==
    /\ LinkRuns
    /\ lastStep' = "connectArduino"
    /\ portCalls' = <<>>
    /\ lastRead' = NoChunk
    /\ \E supported \in BOOLEAN :
        IF ~supported
        THEN /\ emitted' = <<"Not Supported">>
             /\ UNCHANGED <<conn, started>>
        ELSE IF ConnectGuard(serialPort)
        THEN /\ emitted' = <<"Already Connected">>
             /\ UNCHANGED <<conn, started>>
        ELSE /\ started < MaxConnects
             /\ emitted' = <<>>
             /\ started' = started + 1
             /\ \E i \in ConnIds :
                  /\ FreeSlot(i)
                  /\ \A j \in ConnIds : j < i => ~FreeSlot(j)
                  /\ conn' = [conn EXCEPT ![i] =
                                [pc |-> "request", cIsReading |-> isReading,
                                 baud |-> 0, port |-> NoPort]]
    /\ UNCHANGED <<serialPort, arduinoStatus, sensorData, isReading, readerRef,
                   readableClosedRef, loop, disc, portSt, readerSt, pipeSt,
                   granted, device>>

\* requestPort settles: a port, or the fall back to getPorts()
ConnectRequested(i) ==
    /\ LinkRuns
    /\ conn[i].pc = "request"
    /\ lastStep' = "requestPort"
    /\ emitted' = <<>>
    /\ lastRead' = NoChunk
    /\ \/ /\ TakePort(i, ThePort)
          /\ granted' = GrantedAfterPick(granted, ThePort)
          /\ OpenCall(i, 1, portSt, ThePort)
       \/ /\ conn' = [conn EXCEPT ![i].pc = "getPorts"]
          /\ portCalls' = <<>>
          /\ UNCHANGED <<portSt, granted, device>>
    /\ UNCHANGED <<serialPort, arduinoStatus, sensorData, isReading, readerRef,
                   readableClosedRef, loop, disc, readerSt, pipeSt, started>>

\* getPorts settles with the granted ports that are attached, in the order
\* the browser lists them: ports[0] is taken, or with no port the request
\* error is thrown on to the outer catch
ConnectGetPorts(i) ==
    /\ LinkRuns
    /\ conn[i].pc = "getPorts"
    /\ lastStep' = "getPorts"
    /\ lastRead' = NoChunk
    /\ \/ \E p \in Range(granted) :
            /\ TakePort(i, p)
            /\ emitted' = <<"Using Existing Port">>
            /\ OpenCall(i, 1, portSt, p)
       \/ /\ granted = <<>>
          /\ emitted' = <<"Connection Failed">>
          /\ conn' = [conn EXCEPT ![i] = [IdleConn EXCEPT !.pc = "done"]]
          /\ portCalls' = <<>>
          /\ UNCHANGED <<portSt, device>>
    /\ UNCHANGED <<serialPort, arduinoStatus, sensorData, isReading, readerRef,
                   readableClosedRef, loop, disc, readerSt, pipeSt, started,
                   granted>>

\* port.open() raised (at once, or when the open failed): the catch block
\* calls port.close()
ConnectOpenFailed(i) ==
    /\ LinkRuns
    /\ conn[i].pc \in {"opening", "openRejected"}
    /\ lastStep' = "openFailed"
    /\ emitted' = <<>>
    /\ lastRead' = NoChunk
    /\ CloseCall(i, IF conn[i].pc = "opening" THEN "closed" ELSE portSt)
    /\ UNCHANGED <<serialPort, arduinoStatus, sensorData, isReading, readerRef,
                   readableClosedRef, loop, disc, readerSt, pipeSt, started,
                   granted, device>>

\* port.close() settled: the next baud rate of the for loop, or 'Unable to
\* open serial port' after the last one
ConnectRetry(i) ==
    /\ LinkRuns
    /\ conn[i].pc \in {"closing", "closeRejected"}
    /\ lastStep' = "nextBaud"
    /\ lastRead' = NoChunk
    /\ LET ps == IF conn[i].pc = "closing" THEN "closed" ELSE portSt IN
       IF conn[i].baud < Len(BaudOptions)
       THEN /\ emitted' = <<>>
            /\ OpenCall(i, conn[i].baud + 1, ps, conn[i].port)
       ELSE /\ emitted' = <<"Connection Failed">>
            /\ conn' = [conn EXCEPT ![i] = [IdleConn EXCEPT !.pc = "done"]]
            /\ portSt' = ps
            /\ portCalls' = <<>>
    /\ UNCHANGED <<serialPort, arduinoStatus, sensorData, isReading, readerRef,
                   readableClosedRef, loop, disc, readerSt, pipeSt, started,
                   granted, device>>

\* ---- readSerialData ----

\* the end of the finally block in loop i: readableClosedRef.current = null;
\* setIsReading(false); st, pp and ref are the streams and readerRef as the
\* step leaves them
LoopFinish(i, st, pp, ref) ==
    /\ readableClosedRef' = 0
    /\ isReading' = FALSE
    /\ loop' = [loop EXCEPT ![i] = [pc |-> "done", awaited |-> 0]]
    /\ readerSt' = [st EXCEPT ![i] = IF ref = i THEN @ ELSE "none"]
    /\ pipeSt' = pp

\* if (readableClosedRef.current) await readableClosedRef.current, reached
\* in loop i with isReading holding the value reading
LoopAwaitClosed(i, reading, st, pp, ref) ==
    IF readableClosedRef # 0
    THEN /\ loop' = [loop EXCEPT ![i] = [pc |-> "finClosed",
                                         awaited |-> readableClosedRef]]
         /\ isReading' = reading
         /\ readerSt' = st
         /\ pipeSt' = pp
         /\ UNCHANGED readableClosedRef
    ELSE LoopFinish(i, st, pp, ref)

\* the finally block of loop i up to its first await: the reader in
\* readerRef, if any, is cancelled; st and pp are the streams as the try block
\* left them
FinallyEntry(i, reading, st, pp) ==
    IF readerRef # 0
    THEN \E ok \in BOOLEAN :
            /\ ok => CancelCanSucceed(st, readerRef)
            /\ readerSt' = IF ok THEN ReaderAfterCancel(st, readerRef) ELSE st
            /\ pipeSt' = IF ok THEN PipeAfterCancel(pp, readerRef) ELSE pp
            /\ loop' = [loop EXCEPT ![i] =
                          [pc |-> IF ok THEN "finCancelOk" ELSE "finCancelErr",
                           awaited |-> 0]]
            /\ isReading' = reading
            /\ UNCHANGED <<readerRef, readableClosedRef>>
    ELSE /\ UNCHANGED readerRef
         /\ LoopAwaitClosed(i, reading, st, pp, readerRef)

\* readSerialData(port) as connectArduino calls it on the port it opened:
\* the guard reads the isReading its closure captured; pipeTo on a locked
\* port.readable returns a rejected promise
StartReading(i) ==
    IF conn[i].cIsReading
    THEN UNCHANGED <<isReading, readerRef, readableClosedRef, loop, readerSt,
                     pipeSt>>
    ELSE /\ isReading' = TRUE
         /\ readerRef' = i
         /\ readableClosedRef' = i
         /\ readerSt' = [Forget(readerSt, readerRef) EXCEPT ![i] = "locked"]
         /\ pipeSt' = [pipeSt EXCEPT ![i] =
                          IF \E j \in ConnIds : pipeSt[j] = "piping"
                          THEN "none" ELSE "piping"]
         /\ loop' = [loop EXCEPT ![i] = [pc |-> "reading", awaited |-> 0]]

\* port.open() succeeded: the rest of connectArduino
ConnectOpened(i) ==
    /\ LinkRuns
    /\ conn[i].pc = "opening"
    /\ lastStep' = "connected"
    /\ lastRead' = NoChunk
    /\ portCalls' = <<>>
    /\ portSt' = "opened"
    /\ \E info \in PortInfos :
          arduinoStatus' = ConnectedStatus(BoardName(info.usbProductId),
                                           info.usbVendorId # -1)
    /\ serialPort' = conn[i].port
    /\ emitted' = <<"Arduino Connected">>
    /\ conn' = [conn EXCEPT ![i] = [IdleConn EXCEPT !.pc = "done"]]
    /\ StartReading(i)
    /\ UNCHANGED <<sensorData, disc, started,
                   granted, device>>

\* reader.read() delivers a chunk to loop i
ReadChunk(i, chunk) ==
    /\ LinkRuns
    /\ loop[i].pc = "reading"
    /\ readerSt[i] = "locked"
    /\ pipeSt[i] = "piping"
    /\ lastStep' = "read"
    /\ lastRead' = chunk
    /\ arduinoStatus' = StatusAfterChunk(arduinoStatus, chunk)
    /\ sensorData' = SensorAfterChunk(sensorData, chunk)
    /\ emitted' = <<>>
    /\ portCalls' = <<>>
    /\ UNCHANGED <<serialPort, isReading, readerRef, readableClosedRef, conn,
                   loop, disc, portSt, readerSt, pipeSt, started,
                   granted, device>>

\* reader.read() answers done: the reader was cancelled, or the stream ended
ReadDone(i) ==
    /\ LinkRuns
    /\ loop[i].pc = "reading"
    /\ readerSt[i] \in {"locked", "closed"}
    /\ readerSt[i] = "locked" => pipeSt[i] = "piping"
    /\ lastStep' = "readDone"
    /\ Quiet
    /\ FinallyEntry(i, isReading, [readerSt EXCEPT ![i] = "closed"],
                    [pipeSt EXCEPT ![i] = "none"])
    /\ UNCHANGED <<serialPort, arduinoStatus, sensorData, conn, disc, portSt,
                   started,
                   granted, device>>

\* reader.read() raises: a transport error, or the lock was released under
\* the pending read
ReadError(i) ==
    /\ LinkRuns
    /\ loop[i].pc = "reading"
    /\ readerSt[i] \in {"locked", "dead"}
    /\ readerSt[i] = "locked" => pipeSt[i] = "piping"
    /\ lastStep' = "readError"
    /\ Quiet
    /\ FinallyEntry(i, isReading, [readerSt EXCEPT ![i] = "dead"],
                    [pipeSt EXCEPT ![i] = "none"])
    /\ UNCHANGED <<serialPort, arduinoStatus, sensorData, conn, disc, portSt,
                   started,
                   granted, device>>

\* the finally block of loop i after await readerRef.current.cancel()
LoopAfterCancel(i) ==
    /\ LinkRuns
    /\ loop[i].pc \in {"finCancelOk", "finCancelErr"}
    /\ lastStep' = "loopAfterCancel"
    /\ Quiet
    /\ IF loop[i].pc = "finCancelOk"
       THEN /\ readerRef' = 0
            /\ \E ok \in BOOLEAN :
                 LoopAwaitClosed(i, isReading, ReaderAfterRelease(readerSt, ok),
                                 pipeSt, 0)
       ELSE /\ UNCHANGED readerRef
            /\ LoopAwaitClosed(i, isReading, readerSt, pipeSt, readerRef)
    /\ UNCHANGED <<serialPort, arduinoStatus, sensorData, conn, disc, portSt,
                   started,
                   granted, device>>

\* the finally block of loop i after await readableClosedRef.current
LoopAfterClosed(i) ==
    /\ LinkRuns
    /\ loop[i].pc = "finClosed"
    /\ pipeSt[loop[i].awaited] # "piping"
    /\ lastStep' = "loopEnd"
    /\ Quiet
    /\ LoopFinish(i, readerSt, pipeSt, readerRef)
    /\ UNCHANGED <<serialPort, arduinoStatus, sensorData, readerRef, conn, disc,
                   portSt, started,
                   granted, device>>

\* ---- disconnectArduino ----

\* await serialPort.close() as disconnectArduino calls it; the environment
\* may reject a close it could start
DiscCloseCall ==
    \E ok \in BOOLEAN :
        /\ ok => CloseCanStart(portSt)
        /\ portSt' = IF ok THEN "closing" ELSE portSt
        /\ disc' = [pc |-> IF ok THEN "closing" ELSE "closeErr", awaited |-> 0]
        /\ portCalls' = <<[call |-> "close", baud |-> 0, port |-> serialPort]>>

\* try { if (readableClosedRef.current) await readableClosedRef.current; }
\* catch {}, then the close call if there is nothing to await
DiscAwaitClosed ==
    IF readableClosedRef # 0
    THEN /\ disc' = [pc |-> "awaitClosed", awaited |-> readableClosedRef]
         /\ portCalls' = <<>>
         /\ UNCHANGED portSt
    ELSE DiscCloseCall

\* disconnectArduino up to its first await
DisconnectInvoke ==
    /\ LinkRuns
    /\ disc.pc = "idle"
    /\ lastStep' = "disconnectArduino"
    /\ emitted' = <<>>
    /\ lastRead' = NoChunk
    /\ IF serialPort = NoPort
       THEN /\ portCalls' = <<>>
            /\ UNCHANGED <<disc, portSt, readerSt, pipeSt>>
       ELSE IF readerRef # 0
       THEN \E ok \in BOOLEAN :
              /\ ok => CancelCanSucceed(readerSt, readerRef)
              /\ readerSt' = IF ok THEN ReaderAfterCancel(readerSt, readerRef)
                             ELSE readerSt
              /\ pipeSt' = IF ok THEN PipeAfterCancel(pipeSt, readerRef)
                           ELSE pipeSt
              /\ disc' = [pc |-> IF ok THEN "cancelOk" ELSE "cancelErr",
                          awaited |-> 0]
              /\ portCalls' = <<>>
              /\ UNCHANGED portSt
       ELSE /\ DiscAwaitClosed
            /\ UNCHANGED <<readerSt, pipeSt>>
    /\ UNCHANGED <<serialPort, arduinoStatus, sensorData, isReading, readerRef,
                   readableClosedRef, conn, loop, started,
                   granted, device>>

\* after await readerRef.current.cancel(): the release, unless cancel raised
DiscAfterCancel ==
    /\ LinkRuns
    /\ disc.pc \in {"cancelOk", "cancelErr"}
    /\ lastStep' = "disconnectAfterCancel"
    /\ emitted' = <<>>
    /\ lastRead' = NoChunk
    /\ IF disc.pc = "cancelOk"
       THEN /\ \E ok \in BOOLEAN : readerSt' = ReaderAfterRelease(readerSt, ok)
            /\ readerRef' = 0
       ELSE UNCHANGED <<readerSt, readerRef>>
    /\ DiscAwaitClosed
    /\ UNCHANGED <<serialPort, arduinoStatus, sensorData, isReading,
                   readableClosedRef, conn, loop, pipeSt, started,
                   granted, device>>

\* the awaited pipeTo promise settled (either way): the port is closed next
DiscAfterClosed ==
    /\ LinkRuns
    /\ disc.pc = "awaitClosed"
    /\ pipeSt[disc.awaited] # "piping"
    /\ lastStep' = "disconnectAfterClosed"
    /\ emitted' = <<>>
    /\ lastRead' = NoChunk
    /\ DiscCloseCall
    /\ UNCHANGED <<serialPort, arduinoStatus, sensorData, isReading, readerRef,
                   readableClosedRef, conn, loop, readerSt, pipeSt, started,
                   granted, device>>

\* serialPort.close() settled: the state is reset, or the outer catch logs
\* the error
DiscFinish ==
    /\ LinkRuns
    /\ disc.pc \in {"closing", "closeErr"}
    /\ lastStep' = "disconnectArduinoEnd"
    /\ lastRead' = NoChunk
    /\ portCalls' = <<>>
    /\ disc' = IdleDisc
    /\ IF disc.pc = "closing"
       THEN /\ portSt' = "closed"
            /\ serialPort' = NoPort
            /\ arduinoStatus' = DisconnectedStatus
            /\ sensorData' = InitialSensorData
            /\ emitted' = <<"Arduino Disconnected">>
       ELSE /\ emitted' = <<>>
            /\ UNCHANGED <<portSt, serialPort, arduinoStatus, sensorData>>
    /\ UNCHANGED <<isReading, readerRef, readableClosedRef, conn, loop,
                   readerSt, pipeSt, started,
                   granted, device>>

LinkNext ==
    \/ ConnectInvoke
    \/ \E i \in ConnIds : ConnectRequested(i)
    \/ \E i \in ConnIds : ConnectGetPorts(i)
    \/ \E i \in ConnIds : ConnectOpenFailed(i)
    \/ \E i \in ConnIds : ConnectRetry(i)
    \/ \E i \in ConnIds : ConnectOpened(i)
    \/ \E i \in ConnIds : \E chunk \in LinkChunks : ReadChunk(i, chunk)
    \/ \E i \in ConnIds : ReadDone(i)
    \/ \E i \in ConnIds : ReadError(i)
    \/ \E i \in ConnIds : LoopAfterCancel(i)
    \/ \E i \in ConnIds : LoopAfterClosed(i)
    \/ DisconnectInvoke
    \/ DiscAfterCancel
    \/ DiscAfterClosed
    \/ DiscFinish

----------------------------------------------------------------------------
(* Numbers as parseFloat yields them: a sign, an integer part and the      *)
(* digits after the point; NaN when the text starts with no number.        *)

Num(neg, int, frac) == [neg |-> neg, int |-> int, frac |-> frac]

NaN == [nan |-> TRUE]

Drop(s, n) == SubSeq(s, n + 1, Len(s))

\* the digits of a fraction without its trailing zeros: 24.50 is 24.5
RECURSIVE Significant(_)
Significant(ds) ==
    IF ds = <<>> \/ ds[Len(ds)] # "0" THEN ds
    ELSE Significant(SubSeq(ds, 1, Len(ds) - 1))

\* parseFloat(s): the longest prefix of s that is a decimal literal
ParseFloat(s) ==
    LET neg == s # <<>> /\ Head(s) = "-"
        body == IF neg THEN Tail(s) ELSE s
        ip == Prefix(body, DigitChars)
        after == Drop(body, Len(ip))
        fd == IF after # <<>> /\ Head(after) = "."
              THEN Prefix(Tail(after), DigitChars) ELSE <<>>
    IN  IF ip = <<>> /\ fd = <<>> THEN NaN
        ELSE Num(neg, ParseInt(ip), Significant(fd))

----------------------------------------------------------------------------
(* Dashboard with the GPS map (src/unnamed/part_001): the Connect Arduino  *)
(* button, the serial 'disconnect' listener, the read interval with        *)
(* checkSerialConnection, and the effect that clears the stores.           *)

\* robotPath keeps prev.slice(-100) and appends
PathKeep == 100

\* plantingLogs keeps prev.slice(0, 49) behind the new entry
LogKeep == 49

\* plantingMarkers.current.length > 100
MarkerCap == 100

Outcomes == {"OK", "Shallow", "Deep", "Failed"}

\* [\d.] of /PLANT:([\d.]+),...
DepthChars == DigitChars \cup {"."}

DisconnectedData ==
    [isConnected |-> FALSE, connectionType |-> "DISCONNECTED",
     boardType |-> "unknown", batteryLevel |-> 0, signalStrength |-> 0]

\* the value the Connect Arduino button sets; signalStrength: undefined
UsbData(boardType) ==
    [isConnected |-> TRUE, connectionType |-> "USB", boardType |-> boardType,
     batteryLevel |-> 100, signalStrength |-> -1]

\* detectBoardType(info.usbProductId || 0) with no product name
detectBoardType(usbProductId) ==
    CASE usbProductId = 67 -> "arduino:avr:uno"
      [] usbProductId \in {54, 32822} -> "arduino:avr:leonardo"
      [] usbProductId \in {55, 32823} -> "arduino:avr:micro"
      [] usbProductId \in {66, 16} -> "arduino:avr:mega"
      [] OTHER -> "unknown"

InitialGpsData == [isFixed |-> FALSE, satellites |-> 0, accuracy |-> 0]

InitialPosition ==
    [lat |-> Num(FALSE, 14, <<"5", "9", "9", "5">>),
     lng |-> Num(FALSE, 120, <<"9", "8", "4", "2">>)]

IdleCheck == [pc |-> "idle", pos |-> InitialPosition]

IdleGconn == [pc |-> "idle", boardType |-> "unknown"]

GpsInit ==
    /\ arduinoData = DisconnectedData
    /\ gpsSensorData = [temperature |-> Num(FALSE, 0, <<>>), humidity |-> 0,
                        soilMoisture |-> 0, lastUpdate |-> 0]
    /\ robotPosition = InitialPosition
    /\ robotPath = <<>>
    /\ plantingLogs = <<>>
    /\ isPlanting = FALSE
    /\ gpsData = InitialGpsData
    /\ plantingMarkers = <<>>
    /\ onMap = {}
    /\ mapCalls = <<>>
    /\ mapInstance = FALSE
    /\ gpsSerialPort = NoPort
    /\ check = IdleCheck
    /\ intervalPos = InitialPosition
    /\ gconn = IdleGconn

HistoryInit == reads = 0 /\ fixes = <<>> /\ planted = <<>>

\* ---- checkSerialConnection: decoding one chunk ----

\* gpsMatch or plantMatch when the pattern matches nowhere (null)
NoFields == [nomatch |-> TRUE]

\* /GPS:([-\d.]+),([-\d.]+),([01]),(\d+)/ at the characters after "GPS:"
GpsFields(val) ==
    LET lat == Prefix(val, FloatChars)
        r1 == Drop(val, Len(lat))
        lng == IF r1 # <<>> /\ Head(r1) = "," THEN Prefix(Tail(r1), FloatChars)
               ELSE <<>>
        r2 == Drop(r1, Len(lng) + 1)
        okFixed == /\ Len(r2) >= 3
                   /\ r2[1] = "," /\ r2[2] \in {"0", "1"} /\ r2[3] = ","
        satellites == IF okFixed THEN Prefix(Drop(r2, 3), DigitChars) ELSE <<>>
    IN  IF lat # <<>> /\ lng # <<>> /\ okFixed /\ satellites # <<>>
        THEN [lat |-> lat, lng |-> lng, fixed |-> r2[2],
              satellites |-> satellites]
        ELSE NoFields

\* data.match(/GPS:.../): the first place of the chunk where it matches
RECURSIVE MatchGps(_)
MatchGps(chunk) ==
    IF chunk = <<>> THEN NoFields
    ELSE IF Head(chunk).tag = "GPS" /\ GpsFields(Head(chunk).val) # NoFields
         THEN GpsFields(Head(chunk).val)
         ELSE MatchGps(Tail(chunk))

\* /PLANT:([\d.]+),(OK|Shallow|Deep|Failed)/ at the characters after "PLANT:";
\* the outcome word is one element of the text
PlantFields(val) ==
    LET depth == Prefix(val, DepthChars)
        r1 == Drop(val, Len(depth))
    IN  IF depth # <<>> /\ Len(r1) >= 2 /\ r1[1] = "," /\ r1[2] \in Outcomes
        THEN [depth |-> depth, status |-> r1[2]]
        ELSE NoFields

RECURSIVE MatchPlant(_)
MatchPlant(chunk) ==
    IF chunk = <<>> THEN NoFields
    ELSE IF Head(chunk).tag = "PLANT" /\ PlantFields(Head(chunk).val) # NoFields
         THEN PlantFields(Head(chunk).val)
         ELSE MatchPlant(Tail(chunk))

\* mutant of HasUpdates: lastUpdate is stamped by every chunk
HasUpdatesAlways(t, h, so) == TRUE

\* Object.keys(sensorUpdates).length > 0
HasUpdates(t, h, so) == t # NoMatch \/ h # NoMatch \/ so # NoMatch

\* setSensorData(prev => ({ ...prev, ...sensorUpdates })) at time now
GpsSensorAfterChunk(sd, chunk, now) ==
    LET tempMatch == MatchTag(chunk, "TEMP", FloatChars)
        humMatch == MatchTag(chunk, "HUM", DigitChars)
        soilMatch == MatchTag(chunk, "SOIL", DigitChars)
    IN  IF HasUpdates(tempMatch, humMatch, soilMatch)
        THEN [temperature |-> IF tempMatch # NoMatch THEN ParseFloat(tempMatch)
                              ELSE sd.temperature,
              humidity |-> IF humMatch # NoMatch THEN ParseInt(humMatch)
                           ELSE sd.humidity,
              soilMoisture |-> IF soilMatch # NoMatch THEN ParseInt(soilMatch)
                               ELSE sd.soilMoisture,
              lastUpdate |-> now]
        ELSE sd

\* setArduinoData(prev => ({ ...prev, batteryLevel: parseInt(...) }))
DataAfterChunk(ad, chunk) ==
    LET batteryMatch == MatchTag(chunk, "BAT", DigitChars)
    IN  IF batteryMatch # NoMatch
        THEN [ad EXCEPT !.batteryLevel = ParseInt(batteryMatch)]
        ELSE ad

\* newPosition
NewPosition(g) == [lat |-> ParseFloat(g.lat), lng |-> ParseFloat(g.lng)]

\* s.slice(-n)
SliceLast(s, n) == IF Len(s) <= n THEN s ELSE SubSeq(s, Len(s) - n + 1, Len(s))

\* s.slice(0, n)
SliceFirst(s, n) == IF Len(s) <= n THEN s ELSE SubSeq(s, 1, n)

\* [...prev.slice(-100), newPosition]
PathAfterFix(prev, newPosition) == SliceLast(prev, PathKeep) \o <<newPosition>>

\* mutant of LogAfterEvent: nothing is cut off
LogAfterEventUncut(prev, newLog) == <<newLog>> \o prev

\* [newLog, ...prev.slice(0, 49)]
LogAfterEvent(prev, newLog) == <<newLog>> \o SliceFirst(prev, LogKeep)

\* newLog; pos is the robotPosition of the render that made the interval
NewLog(p, now, pos) ==
    [id |-> now, timestamp |-> now, depth |-> p.depth \o <<"mm">>,
     status |-> p.status, coordinates |-> pos]

\* mutant of MarkerWanted: the outcome is not looked at
MarkerWantedAnyOutcome(map, status) == map

\* if (mapInstance.current && status === 'OK')
MarkerWanted(map, status) == map /\ status = "OK"

\* new google.maps.Marker({ position, map, title })
NewMarker(p, now, pos) == [id |-> now, position |-> pos, title |-> p.depth]

\* mutant of Released: the evicted marker stays on the map
ReleasedNot(om, marker) == om

\* marker.setMap(null)
Released(om, marker) == om \ {marker.id}

\* push, then past the capacity setMap(null) on [0] and shift()
MarkersAfterPush(ms, marker) ==
    IF Len(ms) + 1 > MarkerCap THEN Tail(ms \o <<marker>>) ELSE ms \o <<marker>>

OnMapAfterPush(ms, om, marker) ==
    IF Len(ms) + 1 > MarkerCap
    THEN Released(om \cup {marker.id}, (ms \o <<marker>>)[1])
    ELSE om \cup {marker.id}

\* the setMap(null) call of that push
MapCallsOfPush(ms, marker) ==
    IF Len(ms) + 1 > MarkerCap THEN <<(ms \o <<marker>>)[1].id>> ELSE <<>>

\* ---- the handlers ----

\* a step of the GPS dashboard
GpsRuns(label) ==
    /\ program = "gps"
    /\ lastStep' = label
    /\ emitted' = <<>>
    /\ portCalls' = <<>>
    /\ UNCHANGED <<program, linkVars, relayVars, isDetecting, detect>>

\* initMap: mapInstance.current = map, once the maps script has loaded
MapLoaded ==
    /\ GpsRuns("initMap")
    /\ UNCHANGED usbOpen
    /\ mapCalls' = <<>>
    /\ ~mapInstance
    /\ mapInstance' = TRUE
    /\ lastRead' = NoChunk
    /\ UNCHANGED <<arduinoData, gpsSensorData, robotPosition, robotPath,
                   plantingLogs, isPlanting, gpsData, plantingMarkers, onMap,
                   gpsSerialPort, check, intervalPos, gconn, historyVars>>

\* the Connect Arduino button, rendered while !arduinoData.isConnected:
\* navigator.serial.requestPort() is called
GpsConnectInvoke ==
    /\ GpsRuns("connectClick")
    /\ UNCHANGED usbOpen
    /\ mapCalls' = <<>>
    /\ ~arduinoData.isConnected
    /\ gconn.pc = "idle"
    /\ gconn' = [gconn EXCEPT !.pc = "requesting"]
    /\ lastRead' = NoChunk
    /\ UNCHANGED <<arduinoData, gpsSensorData, robotPosition, robotPath,
                   plantingLogs, isPlanting, gpsData, plantingMarkers, onMap,
                   mapInstance, gpsSerialPort, check, intervalPos, historyVars>>

\* requestPort settles: setSerialPort(port), getInfo, port.open is called;
\* a rejection ends in the catch
GpsConnectRequested ==
    /\ GpsRuns("connectRequested")
    /\ UNCHANGED usbOpen
    /\ mapCalls' = <<>>
    /\ gconn.pc = "requesting"
    /\ \/ \E info \in PortInfos :
            /\ gpsSerialPort' = ThePort
            /\ gconn' = [pc |-> "opening",
                         boardType |-> detectBoardType(info.usbProductId)]
       \/ /\ gconn' = IdleGconn
          /\ UNCHANGED gpsSerialPort
    /\ lastRead' = NoChunk
    /\ UNCHANGED <<arduinoData, gpsSensorData, robotPosition, robotPath,
                   plantingLogs, isPlanting, gpsData, plantingMarkers, onMap,
                   mapInstance, check, intervalPos, historyVars>>

\* port.open settles: setArduinoData(connected), and the read interval is
\* made by the render that follows, with that render's robotPosition; a
\* rejection ends in the catch.  The port opens only once the read of its
\* earlier stream has settled.
GpsConnectOpened ==
    /\ GpsRuns("connectOpened")
    /\ mapCalls' = <<>>
    /\ gconn.pc = "opening"
    /\ \/ /\ check.pc = "idle"
          /\ ~usbOpen
          /\ usbOpen' = TRUE
          /\ arduinoData' = UsbData(gconn.boardType)
          /\ intervalPos' = robotPosition
       \/ UNCHANGED <<arduinoData, intervalPos, usbOpen>>
    /\ gconn' = IdleGconn
    /\ lastRead' = NoChunk
    /\ UNCHANGED <<gpsSensorData, robotPosition, robotPath, plantingLogs,
                   isPlanting, gpsData, plantingMarkers, onMap, mapInstance,
                   gpsSerialPort, check, historyVars>>

\* plantingMarkers.current.forEach(marker => marker.setMap(null))
ReleasedAll(om, ms) ==
    {id \in om : \A k \in 1..Len(ms) : id \in Released({id}, ms[k])}

\* the effect on [arduinoData.isConnected], when it finds it false
ClearStores ==
    /\ onMap' = ReleasedAll(onMap, plantingMarkers)
    /\ mapCalls' = [k \in 1..Len(plantingMarkers) |-> plantingMarkers[k].id]
    /\ plantingMarkers' = <<>>
    /\ robotPath' = <<>>
    /\ plantingLogs' = <<>>
    /\ isPlanting' = FALSE
    /\ gpsData' = InitialGpsData
    /\ fixes' = <<>>
    /\ planted' = <<>>

\* handleDisconnect, the listener of the serial 'disconnect' event of a
\* granted port, and the effects of the render that follows; the port is
\* closed when the device that left is its own
HandleDisconnect ==
    /\ GpsRuns("handleDisconnect")
    /\ gpsSerialPort # NoPort
    /\ usbOpen' \in {FALSE, usbOpen}
    /\ arduinoData' = DisconnectedData
    /\ gpsSerialPort' = NoPort
    /\ IF arduinoData.isConnected THEN ClearStores
       ELSE /\ mapCalls' = <<>>
            /\ UNCHANGED <<onMap, plantingMarkers, robotPath, plantingLogs,
                           isPlanting, gpsData, fixes, planted>>
    /\ lastRead' = NoChunk
    /\ UNCHANGED <<gpsSensorData, robotPosition, mapInstance, check,
                   intervalPos, gconn, reads>>

\* the read interval exists
IntervalRuns ==
    /\ arduinoData.isConnected
    /\ gpsSerialPort # NoPort
    /\ arduinoData.connectionType = "USB"

\* a tick of the interval: checkSerialConnection up to await reader.read();
\* serialPort.readable is null while the port is closed.
\* While an earlier call holds the reader, getReader() raises into the catch
\* and the tick changes nothing.
GpsCheckInvoke(limit) ==
    /\ GpsRuns("checkSerialConnection")
    /\ usbOpen
    /\ UNCHANGED usbOpen
    /\ mapCalls' = <<>>
    /\ IntervalRuns
    /\ check.pc = "idle"
    /\ reads < limit
    /\ check' = [pc |-> "reading", pos |-> intervalPos]
    /\ lastRead' = NoChunk
    /\ UNCHANGED <<arduinoData, gpsSensorData, robotPosition, robotPath,
                   plantingLogs, isPlanting, gpsData, plantingMarkers, onMap,
                   mapInstance, gpsSerialPort, intervalPos, gconn,
                   historyVars>>

\* reader.read() delivers a chunk: the rest of checkSerialConnection
GpsCheckRead(chunk) ==
    LET now == reads + 1
        gpsMatch == MatchGps(chunk)
        plantMatch == MatchPlant(chunk)
        newLog == NewLog(plantMatch, now, check.pos)
        plantingMarker == NewMarker(plantMatch, now, check.pos)
    IN
    /\ GpsRuns("check")
    /\ UNCHANGED usbOpen
    /\ check.pc = "reading"
    /\ lastRead' = chunk
    /\ reads' = now
    /\ arduinoData' = DataAfterChunk(arduinoData, chunk)
    /\ gpsSensorData' = GpsSensorAfterChunk(gpsSensorData, chunk, now)
    /\ IF gpsMatch # NoFields
       THEN /\ robotPosition' = NewPosition(gpsMatch)
            /\ robotPath' = PathAfterFix(robotPath, NewPosition(gpsMatch))
            /\ gpsData' = [isFixed |-> gpsMatch.fixed = "1",
                           satellites |-> ParseInt(gpsMatch.satellites),
                           accuracy |-> 0]
            /\ fixes' = Append(fixes, NewPosition(gpsMatch))
       ELSE UNCHANGED <<robotPosition, robotPath, gpsData, fixes>>
    /\ IF plantMatch # NoFields
       THEN /\ plantingLogs' = LogAfterEvent(plantingLogs, newLog)
            /\ planted' = Append(planted, newLog)
            /\ isPlanting' = TRUE
            /\ IF MarkerWanted(mapInstance, plantMatch.status)
               THEN /\ plantingMarkers' =
                          MarkersAfterPush(plantingMarkers, plantingMarker)
                    /\ onMap' =
                          OnMapAfterPush(plantingMarkers, onMap, plantingMarker)
                    /\ mapCalls' =
                          MapCallsOfPush(plantingMarkers, plantingMarker)
               ELSE /\ mapCalls' = <<>>
                    /\ UNCHANGED <<plantingMarkers, onMap>>
       ELSE /\ isPlanting' = FALSE
            /\ mapCalls' = <<>>
            /\ UNCHANGED <<plantingLogs, planted, plantingMarkers, onMap>>
    /\ check' = IdleCheck
    /\ UNCHANGED <<mapInstance, gpsSerialPort, intervalPos, gconn>>

\* reader.read() rejects (a framing or overrun error, or the device is
\* lost): the catch logs it; the port gives a new stream, or none at all
GpsCheckError ==
    /\ GpsRuns("checkError")
    /\ UNCHANGED usbOpen
    /\ mapCalls' = <<>>
    /\ check.pc = "reading"
    /\ check' = IdleCheck
    /\ lastRead' = NoChunk
    /\ UNCHANGED <<arduinoData, gpsSensorData, robotPosition, robotPath,
                   plantingLogs, isPlanting, gpsData, plantingMarkers, onMap,
                   mapInstance, gpsSerialPort, intervalPos, gconn,
                   historyVars>>

\* ---- the chunks read ----

DigitChar(d) == CHOOSE c \in DigitChars : DigitVal(c) = d

\* String(n)
RECURSIVE ToDigits(_)
ToDigits(n) ==
    IF n < 10 THEN <<DigitChar(n)>>
    ELSE ToDigits(n \div 10) \o <<DigitChar(n % 10)>>

\* "GPS:n,n,fixed,7"
FixChunk(n, fixed) ==
    <<Tok("GPS", ToDigits(n) \o <<",">> \o ToDigits(n) \o <<",", fixed, ",", "7">>)>>

\* "PLANT:n,outcome"
PlantChunk(n, outcome) == <<Tok("PLANT", ToDigits(n) \o <<",", outcome>>)>>

\* the chunks a read of the GPS dashboard's port may deliver
GpsChunks ==
    { <<Tok("GPS", <<"1", "4", ".", "6", ",", "1", "2", "1", ".", "0", "5",
                     ",", "1", ",", "7">>)>>,
      <<Tok("PLANT", <<"1", "2", ".", "5", ",", "OK">>)>>,
      <<Tok("PLANT", <<"8", ",", "Shallow">>)>>,
      <<Tok("PLANT", <<"3", ",", "Failed">>)>>,
      <<Tok("GPS", <<"-", "7", ".", "2", ",", "1", "1", "0", ",", "0", ",", "0">>),
        Tok("PLANT", <<"2", "0", ",", "Deep">>)>>,
      <<Tok("BAT", <<"8", "7">>), Tok("TEMP", <<"2", "4", ".", "5", "0">>)>>,
      <<Tok("???", <<>>)>> }

\* the Connect Arduino button and a failing read
GpsSetup ==
    \/ GpsConnectInvoke
    \/ GpsConnectRequested
    \/ GpsConnectOpened
    \/ GpsCheckError

\* ---- runDetection, detectUSBArduino, detectWirelessArduino ----

\* 0x2341, 0x1B4F, 0x239A, 0x10C4, 0x1A86, 0x0403
ARDUINO_VENDOR_IDS == {9025, 6991, 9114, 4292, 6790, 1027}

\* runDetection calls in one run: the one at mount, the timer's, the serial
\* 'connect' listener's
MaxRuns == 2

RunIds == 1..MaxRuns

DetectInit ==
    /\ isDetecting = FALSE
    /\ detect = [r \in RunIds |-> [pc |-> "idle"]]
    /\ usbOpen = FALSE

\* the isDetecting and the arduinoData.isConnected that runDetection reads:
\* the function is made once, by the effect with the empty dependency list,
\* and holds the values of the first render
CapturedIsDetecting == FALSE

CapturedIsConnected == FALSE

\* what /status of a wireless board may answer, as setArduinoData stores it
WirelessData ==
    { [isConnected |-> TRUE, connectionType |-> "WIFI", boardType |-> "ESP32",
       batteryLevel |-> 55, signalStrength |-> 70],
      [isConnected |-> TRUE, connectionType |-> "BLUETOOTH",
       boardType |-> "esp32", batteryLevel |-> 20, signalStrength |-> 0] }

\* a step of runDetection
DetectRuns(label) ==
    /\ program = "gps"
    /\ lastStep' = label
    /\ emitted' = <<>>
    /\ portCalls' = <<>>
    /\ lastRead' = NoChunk
    /\ UNCHANGED <<program, linkVars, relayVars>>
    /\ UNCHANGED <<gpsSensorData, robotPosition, mapInstance, check, gconn,
                   reads>>

\* the effects of the render after setArduinoData(data) and
\* setSerialPort(port): the stores are cleared when isConnected turned
\* false, and the read interval is made anew, with that render's
\* robotPosition, when it is wanted and isConnected or serialPort changed
AfterSetArduinoData(data, port) ==
    /\ arduinoData' = data
    /\ gpsSerialPort' = port
    /\ IF arduinoData.isConnected /\ ~data.isConnected THEN ClearStores
       ELSE /\ mapCalls' = <<>>
            /\ UNCHANGED <<onMap, plantingMarkers, robotPath, plantingLogs,
                           isPlanting, gpsData, fixes, planted>>
    /\ intervalPos' =
          IF /\ data.isConnected /\ port # NoPort /\ data.connectionType = "USB"
             /\ (~arduinoData.isConnected \/ port # gpsSerialPort)
          THEN robotPosition ELSE intervalPos

\* nothing is set
NothingSet ==
    /\ mapCalls' = <<>>
    /\ UNCHANGED <<arduinoData, gpsSerialPort, onMap, plantingMarkers,
                   robotPath, plantingLogs, isPlanting, gpsData, fixes,
                   planted, intervalPos>>

\* runDetection is called, by the mount, by the 5-second timer or by the
\* serial 'connect' listener: the guard, setIsDetecting(true), and
\* detectUSBArduino up to await navigator.serial.getPorts()
DetectInvoke(r) ==
    /\ DetectRuns("runDetection")
    /\ UNCHANGED usbOpen
    /\ detect[r].pc = "idle"
    /\ NothingSet
    /\ IF CapturedIsDetecting
       THEN /\ detect' = [detect EXCEPT ![r].pc = "done"]
            /\ UNCHANGED isDetecting
       ELSE /\ detect' = [detect EXCEPT ![r].pc = "getPorts"]
            /\ isDetecting' = TRUE

\* if (!arduinoData.isConnected) await detectWirelessArduino(), up to its
\* first fetch; else setIsDetecting(false)
AfterUsb(r) ==
    IF ~CapturedIsConnected
    THEN /\ detect' = [detect EXCEPT ![r].pc = "wireless"]
         /\ UNCHANGED isDetecting
    ELSE /\ detect' = [detect EXCEPT ![r].pc = "done"]
         /\ isDetecting' = FALSE

\* getPorts settles in run r: a port with an Arduino vendor id is stored and
\* the state set to connected before the port is opened (port.readable is
\* null while it is closed); with no such port, or when getPorts rejects,
\* the state is set to disconnected
DetectUsbPorts(r) ==
    /\ DetectRuns("detectUSB")
    /\ detect[r].pc = "getPorts"
    /\ UNCHANGED usbOpen
    /\ \/ \E info \in {i \in PortInfos :
                            i.usbVendorId \in ARDUINO_VENDOR_IDS} :
            /\ AfterSetArduinoData(UsbData(detectBoardType(info.usbProductId)),
                                   ThePort)
            /\ IF ~usbOpen
               THEN /\ detect' = [detect EXCEPT ![r].pc = "opening"]
                    /\ UNCHANGED isDetecting
               ELSE AfterUsb(r)
       \/ /\ AfterSetArduinoData(DisconnectedData, gpsSerialPort)
          /\ AfterUsb(r)

\* port.open({ baudRate: 9600 }) of detectUSBArduino settles in run r: a
\* rejection, the only outcome for a port that is open by then, ends in the
\* catch, which sets the state to disconnected
DetectUsbOpened(r) ==
    /\ DetectRuns("detectOpened")
    /\ detect[r].pc = "opening"
    /\ \/ /\ ~usbOpen
          /\ usbOpen' = TRUE
          /\ NothingSet
       \/ /\ AfterSetArduinoData(DisconnectedData, gpsSerialPort)
          /\ UNCHANGED usbOpen
    /\ AfterUsb(r)

\* detectWirelessArduino of run r ends: a board answered /status, or none
\* did; then setIsDetecting(false)
DetectWireless(r) ==
    /\ DetectRuns("detectWireless")
    /\ UNCHANGED usbOpen
    /\ detect[r].pc = "wireless"
    /\ \/ \E data \in WirelessData : AfterSetArduinoData(data, gpsSerialPort)
       \/ NothingSet
    /\ detect' = [detect EXCEPT ![r].pc = "done"]
    /\ isDetecting' = FALSE

----------------------------------------------------------------------------
(* The relay (src/unnamed/part_002): the serial port's 'open' handler, the *)
(* line parser's 'data' handler and handleArduinoData.  A line is text     *)
(* that JSON.parse accepts, with the envelope it yields (a function of its *)
(* fields), or text that JSON.parse rejects.  Temperatures are in tenths   *)
(* of a degree: 20.6 is 206.                                               *)

\* currentData.plantingLogs.length > 50, slice(0, 50)
RelayLogCap == 50

\* the right-hand sides of data.battery || 0, data.temperature || 20.6 and
\* data.humidity || 66
RelayDefaults == [battery |-> 0, temperature |-> 206, humidity |-> 66]

\* WebSocket clients that connect in one run
MaxClients == 2

ClientIds == 1..MaxClients

\* initializeSerial calls the retry timer makes in one run
MaxRetries == 2

NoReply == [status |-> 0]

\* lastSeen: null
NullTime == -1

NoneDelivered == [c \in ClientIds |-> <<>>]

RelayInit ==
    /\ currentData = [battery |-> 0, temperature |-> 206, humidity |-> 66,
                      isOnline |-> FALSE, lastSeen |-> NullTime,
                      plantingLogs |-> <<>>]
    /\ relayPort = "opening"
    /\ sent = <<>>
    /\ relayClock = 0
    /\ clients = <<>>
    /\ readyState = [c \in ClientIds |-> "none"]
    /\ delivered = NoneDelivered
    /\ raised = 0
    /\ crashed = FALSE
    /\ retryTimers = 0
    /\ tries = 0
    /\ written = <<>>
    /\ reply = NoReply

Json(envelope) == [parses |-> TRUE, value |-> envelope]

NotJson == [parses |-> FALSE]

\* data.f || default: the default replaces an absent field and a zero
OrDefault(data, f) ==
    IF f \in DOMAIN data /\ data[f] # 0 THEN data[f] ELSE RelayDefaults[f]

\* data.f, undefined when the envelope has no such field
Field(data, f) == IF f \in DOMAIN data THEN data[f] ELSE "undefined"

\* plantingEvent
PlantingEvent(data, now) ==
    [time |-> now, depth |-> <<Field(data, "depth"), "cm">>,
     status |-> Field(data, "status"), timestamp |-> now]

\* unshift(plantingEvent), then slice(0, 50) past 50 entries
RelayLogsAfter(logs, event) ==
    IF Len(logs) + 1 > RelayLogCap
    THEN SliceFirst(<<event>> \o logs, RelayLogCap)
    ELSE <<event>> \o logs

\* the place of client c in wss.clients
Pos(c) == CHOOSE k \in 1..Len(clients) : clients[k] = c

\* if (client.readyState === WebSocket.OPEN)
ReceivesWhileClosing(c) == c \in Range(clients)

Receives(c) == c \in Range(clients) /\ readyState[c] = "open"

\* broadcastToClients(message).  client.send may raise; bad is the client
\* whose send raised (0: none did).  forEach stops there: the clients before
\* it have the message, it and those after it do not.  The exception ends
\* the process unless the caller catches it.
BroadcastToClients(message, caught) ==
    \E bad \in {0} \cup {c \in ClientIds : Receives(c)} :
        /\ sent' = <<message>>
        /\ delivered' = [c \in ClientIds |->
                           IF Receives(c) /\ (bad = 0 \/ Pos(c) < Pos(bad))
                           THEN <<message>> ELSE <<>>]
        /\ raised' = bad
        /\ crashed' = (bad # 0 /\ ~caught)

\* a step that does not call broadcastToClients
NoBroadcast ==
    /\ sent' = <<>>
    /\ raised' = 0
    /\ delivered' = NoneDelivered
    /\ UNCHANGED crashed

\* a step of the relay
RelayRuns(label) ==
    /\ program = "relay"
    /\ ~crashed
    /\ lastStep' = label
    /\ emitted' = <<>>
    /\ portCalls' = <<>>
    /\ UNCHANGED <<program, linkVars, gpsVars, detectVars>>

\* a step of the relay on its serial side: no command, no client comes or goes
SerialSide ==
    /\ written' = <<>>
    /\ reply' = NoReply
    /\ UNCHANGED <<clients, readyState>>

\* serialPort.on('open')
RelayOpen ==
    /\ RelayRuns("open")
    /\ SerialSide
    /\ relayPort = "opening"
    /\ relayPort' = "open"
    /\ currentData' = [currentData EXCEPT !.isOnline = TRUE]
    /\ BroadcastToClients([type |-> "connection", status |-> "connected"],
                          FALSE)
    /\ lastRead' = NoChunk
    /\ UNCHANGED <<historyVars, relayClock, retryTimers, tries>>

\* handleArduinoData(data) at time now, called inside the try of the parser's
\* 'data' handler
HandleArduinoData(data, now) ==
    LET type == Field(data, "type")
        plantingEvent == PlantingEvent(data, now)
    IN  CASE type = "system_status" ->
               /\ currentData' =
                     [currentData EXCEPT
                        !.battery = OrDefault(data, "battery"),
                        !.temperature = OrDefault(data, "temperature"),
                        !.humidity = OrDefault(data, "humidity"),
                        !.lastSeen = now,
                        !.isOnline = TRUE]
               /\ BroadcastToClients([type |-> "system_update",
                                      data |-> currentData'], TRUE)
               /\ UNCHANGED planted
          [] type = "planting_event" ->
               /\ currentData' =
                     [currentData EXCEPT
                        !.plantingLogs = RelayLogsAfter(@, plantingEvent)]
               /\ BroadcastToClients([type |-> "planting_event",
                                      event |-> plantingEvent,
                                      logs |-> currentData'.plantingLogs],
                                     TRUE)
               /\ planted' = Append(planted, plantingEvent)
          [] type = "log" ->
               /\ BroadcastToClients([type |-> "log",
                                      message |-> Field(data, "message"),
                                      timestamp |-> now], TRUE)
               /\ UNCHANGED <<currentData, planted>>
          [] OTHER ->
               /\ NoBroadcast
               /\ UNCHANGED <<currentData, planted>>

\* parser.on('data'): JSON.parse(data.trim()) and handleArduinoData, or the
\* catch that logs the raw line.  The clock has moved on by one of ticks
\* milliseconds since the line before.
RelayData(line, limit, ticks) ==
    /\ RelayRuns("data")
    /\ SerialSide
    /\ relayPort = "open"
    /\ reads < limit
    /\ reads' = reads + 1
    /\ lastRead' = <<line>>
    /\ \E tick \in ticks :
          /\ relayClock' = relayClock + tick
          /\ IF line.parses THEN HandleArduinoData(line.value, relayClock')
             ELSE /\ NoBroadcast
                  /\ UNCHANGED <<currentData, planted>>
    /\ UNCHANGED <<relayPort, fixes, retryTimers, tries>>

\* serialPort.on('error'): the port could not be opened, or failed while open
RelayError ==
    /\ RelayRuns("error")
    /\ SerialSide
    /\ relayPort \in {"opening", "open"}
    /\ relayPort' = "down"
    /\ currentData' = [currentData EXCEPT !.isOnline = FALSE]
    /\ BroadcastToClients([type |-> "connection", status |-> "error",
                           error |-> "err.message"], FALSE)
    /\ retryTimers' = IF raised' = 0 THEN retryTimers + 1 ELSE retryTimers
    /\ lastRead' = NoChunk
    /\ UNCHANGED <<historyVars, relayClock, tries>>

\* serialPort.on('close')
RelayClose ==
    /\ RelayRuns("close")
    /\ SerialSide
    /\ relayPort = "open"
    /\ relayPort' = "down"
    /\ currentData' = [currentData EXCEPT !.isOnline = FALSE]
    /\ BroadcastToClients([type |-> "connection", status |-> "disconnected"],
                          FALSE)
    /\ lastRead' = NoChunk
    /\ UNCHANGED <<historyVars, relayClock, retryTimers, tries>>

\* the timer of the 'error' handler fires: initializeSerial()
RelayRetry ==
    /\ RelayRuns("retry")
    /\ SerialSide
    /\ NoBroadcast
    /\ retryTimers > 0
    /\ tries < MaxRetries
    /\ retryTimers' = retryTimers - 1
    /\ tries' = tries + 1
    /\ relayPort' = "opening"
    /\ lastRead' = NoChunk
    /\ UNCHANGED <<historyVars, relayClock, currentData>>

\* a step of the relay on its client side
ClientSide ==
    /\ NoBroadcast
    /\ lastRead' = NoChunk
    /\ UNCHANGED <<historyVars, relayClock, currentData, relayPort,
                   retryTimers, tries>>

\* wss.on('connection'): the server adds the socket to wss.clients, the
\* handler sends it initial_data
ClientConnect(c) ==
    /\ RelayRuns("connection")
    /\ readyState[c] = "none"
    /\ clients' = Append(clients, c)
    /\ readyState' = [readyState EXCEPT ![c] = "open"]
    /\ sent' = <<>>
    /\ raised' = 0
    /\ delivered' = [NoneDelivered EXCEPT
                       ![c] = <<[type |-> "initial_data",
                                 data |-> currentData]>>]
    /\ lastRead' = NoChunk
    /\ written' = <<>>
    /\ reply' = NoReply
    /\ UNCHANGED <<historyVars, relayClock, currentData, relayPort,
                   retryTimers, tries, crashed>>

\* the closing handshake of client c has begun: readyState is CLOSING and the
\* socket is still in wss.clients
ClientClosing(c) ==
    /\ RelayRuns("closing")
    /\ ClientSide
    /\ readyState[c] = "open"
    /\ readyState' = [readyState EXCEPT ![c] = "closing"]
    /\ written' = <<>>
    /\ reply' = NoReply
    /\ UNCHANGED clients

\* client c is closed: readyState is CLOSED, the server takes the socket out
\* of wss.clients and ws.on('close') logs.  Closing a closed socket does
\* nothing.
ClientClose(c) ==
    /\ RelayRuns("clientClose")
    /\ ClientSide
    /\ readyState[c] \in {"open", "closing", "closed"}
    /\ readyState' = [readyState EXCEPT ![c] = "closed"]
    /\ clients' = SelectSeq(clients, LAMBDA d : d # c)
    /\ written' = <<>>
    /\ reply' = NoReply

\* serialPort && serialPort.isOpen
PortWritableAlways(port) == TRUE

PortWritable(port) == port = "open"

\* data.command + '\n'
CommandLine(data) == <<Field(data, "command"), "\n">>

\* ws.on('message') of client c
WsMessage(c, message) ==
    /\ RelayRuns("message")
    /\ NoBroadcast
    /\ readyState[c] = "open"
    /\ lastRead' = <<message>>
    /\ written' = IF /\ message.parses
                     /\ Field(message.value, "type") = "command"
                     /\ PortWritable(relayPort)
                  THEN <<CommandLine(message.value)>> ELSE <<>>
    /\ reply' = NoReply
    /\ UNCHANGED <<historyVars, relayClock, currentData, relayPort,
                   retryTimers, tries, clients, readyState>>

\* app.post('/api/command') with the body req.body
PostCommand(body) ==
    /\ RelayRuns("postCommand")
    /\ NoBroadcast
    /\ lastRead' = <<body>>
    /\ IF ~PortWritable(relayPort)
       THEN /\ written' = <<>>
            /\ reply' = [status |-> 503, success |-> FALSE,
                         message |-> <<"Arduino not connected">>]
       ELSE /\ written' = <<CommandLine(body)>>
            /\ reply' = [status |-> 200, success |-> TRUE,
                         message |-> <<"Command \"", Field(body, "command"),
                                       "\" sent to Arduino">>]
    /\ UNCHANGED <<historyVars, relayClock, currentData, relayPort,
                   retryTimers, tries, clients, readyState>>

\* what a client may send
WsMessages ==
    { Json([type |-> "command", command |-> "START"]),
      Json([type |-> "command"]),
      Json([type |-> "status"]),
      NotJson }

\* the bodies POST /api/command may carry
CommandBodies == { [command |-> "STOP"], [other |-> "x"] }

\* {"type":"planting_event","depth":n,"status":outcome}
PlantLine(n, outcome) ==
    Json([type |-> "planting_event", depth |-> n, status |-> outcome])

\* the lines the relay's port may deliver
RelayLines ==
    { Json([type |-> "system_status", battery |-> 87, temperature |-> 245,
            humidity |-> 40]),
      Json([type |-> "system_status", battery |-> 50]),
      Json([type |-> "system_status", battery |-> 0, temperature |-> 0,
            humidity |-> 0]),
      Json([type |-> "planting_event", depth |-> 5, status |-> "OK"]),
      Json([type |-> "log", message |-> "ready"]),
      NotJson }

----------------------------------------------------------------------------
(* The specifications.                                                     *)

\* chunks decoded in one run of SpecTelemetry
MaxReads == 3

\* GPS fixes decoded in one run of SpecPath
MaxFixes == 102

\* planting events in one run of SpecPlant
MaxPlants == 102

\* events at the start of a long run around which the map may finish
\* loading, the device may be unplugged and a planting outcome is free
FreeEvents == 1

\* in a long run the map finishes loading and the device is unplugged early,
\* or once cap events were read
EventTime(cap) == reads <= FreeEvents \/ reads >= cap

AllInit == LinkInit /\ GpsInit /\ HistoryInit /\ RelayInit /\ DetectInit

LinkSpecInit == program = "dashboard" /\ AllInit

SpecLink == LinkSpecInit /\ [][LinkNext]_vars

\* short runs of the GPS dashboard and of the relay over every kind of line
TelemetryInit == program \in {"gps", "relay"} /\ AllInit

TelemetryNext ==
    \/ GpsSetup
    \/ MapLoaded
    \/ HandleDisconnect
    \/ GpsCheckInvoke(MaxReads)
    \/ \E chunk \in GpsChunks : GpsCheckRead(chunk)
    \/ RelayOpen
    \/ \E line \in RelayLines : RelayData(line, MaxReads, {1})

SpecTelemetry == TelemetryInit /\ [][TelemetryNext]_vars

\* long runs of the GPS dashboard over fixes with distinct coordinates
PathInit == program = "gps" /\ AllInit

PathNext ==
    \/ GpsSetup
    \/ EventTime(PathKeep) /\ MapLoaded
    \/ EventTime(PathKeep) /\ HandleDisconnect
    \/ GpsCheckInvoke(MaxFixes)
    \/ \E fixed \in {"0", "1"} : GpsCheckRead(FixChunk(reads + 1, fixed))

SpecPath == PathInit /\ [][PathNext]_vars

\* the outcomes the n-th planting event of a long run may carry: any at the
\* start of the run and once the marker store can be full, OK in between
PlantOutcomes(n) ==
    IF n <= FreeEvents \/ n > MarkerCap THEN Outcomes ELSE {"OK"}

PlantInit == program \in {"gps", "relay"} /\ AllInit

PlantNext ==
    \/ GpsSetup
    \/ EventTime(MarkerCap) /\ MapLoaded
    \/ EventTime(MarkerCap) /\ HandleDisconnect
    \/ GpsCheckInvoke(MaxPlants)
    \/ \E o \in PlantOutcomes(reads + 1) : GpsCheckRead(PlantChunk(reads + 1, o))
    \/ RelayOpen
    \/ \E o \in PlantOutcomes(reads + 1) :
          RelayData(PlantLine(reads + 1, o), MaxPlants, {1})

SpecPlant == PlantInit /\ [][PlantNext]_vars

\* chunks with values that are no numbers, with a tag twice and with a
\* battery level past 100
DecodeChunks ==
    { <<Tok("TEMP", <<"-">>)>>,
      <<Tok("TEMP", <<"1", ".", "2", ".", "3">>)>>,
      <<Tok("TEMP", <<"2", "4", ".", "5">>)>>,
      <<Tok("GPS", <<"-", ".", ",", "1", "2", "1", ".", "0", "5", ",", "1",
                     ",", "7">>)>>,
      <<Tok("BAT", <<"1", "0">>), Tok("BAT", <<"2", "0">>)>>,
      <<Tok("BAT", <<"1", "5", "0">>)>> }

\* short runs of the GPS dashboard over those chunks
DecodeNext ==
    \/ GpsSetup
    \/ GpsCheckInvoke(MaxReads)
    \/ \E chunk \in DecodeChunks : GpsCheckRead(chunk)

SpecDecode == PathInit /\ [][DecodeNext]_vars

\* runs of the GPS dashboard with its detection, a planting event and the
\* serial 'disconnect' event
DetectNext ==
    \/ \E r \in RunIds : DetectInvoke(r)
    \/ \E r \in RunIds : DetectUsbPorts(r)
    \/ \E r \in RunIds : DetectUsbOpened(r)
    \/ \E r \in RunIds : DetectWireless(r)
    \/ HandleDisconnect
    \/ GpsCheckInvoke(FreeEvents)
    \/ GpsCheckRead(PlantChunk(reads + 1, "OK"))

SpecDetect == PathInit /\ [][DetectNext]_vars

\* lines the serial port delivers in one run of SpecRelay
MaxLines == 2

\* runs of the relay with its clients and its serial port failing and
\* closing; two lines may be handled in the same millisecond
RelayServerInit == program = "relay" /\ AllInit

RelayServerNext ==
    \/ RelayOpen
    \/ \E line \in RelayLines : RelayData(line, MaxLines, {0, 1})
    \/ RelayError
    \/ RelayClose
    \/ RelayRetry
    \/ \E c \in ClientIds : ClientConnect(c)
    \/ \E c \in ClientIds : ClientClosing(c)
    \/ \E c \in ClientIds : ClientClose(c)

SpecRelay == RelayServerInit /\ [][RelayServerNext]_vars

\* runs of the relay with clients that come, go and send commands, and REST
\* callers, while its serial port opens, fails and closes
CommandNext ==
    \/ RelayOpen
    \/ RelayError
    \/ RelayClose
    \/ RelayRetry
    \/ \E c \in ClientIds : ClientConnect(c)
    \/ \E c \in ClientIds : ClientClosing(c)
    \/ \E c \in ClientIds : ClientClose(c)
    \/ \E c \in ClientIds : \E message \in WsMessages : WsMessage(c, message)
    \/ \E body \in CommandBodies : PostCommand(body)

SpecCommand == RelayServerInit /\ [][CommandNext]_vars

----------------------------------------------------------------------------
(* Claims about the dashboard's link (SpecLink).                           *)

HasTag(chunk, tag) == \E k \in 1..Len(chunk) : chunk[k].tag = tag

\* read loops that hold a reader fed by the port
ActiveReaders ==
    {i \in ConnIds : loop[i].pc = "reading" /\ readerSt[i] = "locked"}

\* C1: a disconnectArduino that was invoked with a port held ends with
\* serialPort cleared and the connection status DISCONNECTED, whatever
\* cancel(), releaseLock(), the stream-closed promise and port.close() did.
C1_DisconnectAlwaysClears ==
    lastStep = "disconnectArduinoEnd" =>
        serialPort = NoPort /\ arduinoStatus.connection = "DISCONNECTED"

C8_MultiTagFrame ==
    [][lastStep' = "read" =>
        LET c == lastRead' IN
        /\ (HasTag(c, "BAT") /\ HasTag(c, "TEMP")) =>
              /\ arduinoStatus'.battery = ParseInt(MatchTag(c, "BAT", DigitChars))
              /\ sensorData'.temperature = MatchTag(c, "TEMP", FloatChars)
        /\ ~HasTag(c, "BAT") => arduinoStatus' = arduinoStatus
        /\ [arduinoStatus' EXCEPT !.battery = 0]
              = [arduinoStatus EXCEPT !.battery = 0]
        /\ ~HasTag(c, "TEMP") => sensorData'.temperature = sensorData.temperature
        /\ ~HasTag(c, "HUM") => sensorData'.humidity = sensorData.humidity
        /\ ~HasTag(c, "SOIL") =>
              /\ sensorData'.soilMoisture = sensorData.soilMoisture
              /\ sensorData'.soilSensorStatus = sensorData.soilSensorStatus
        /\ ~(HasTag(c, "TEMP") \/ HasTag(c, "HUM")) =>
              sensorData'.dht22Status = sensorData.dht22Status
        /\ \A f \in {"lightIntensity", "soilTemp", "airQuality", "phLevel",
                     "obstacleDistance", "lightSensorStatus", "phSensorStatus",
                     "obstacleSensorStatus"} : sensorData'[f] = sensorData[f]
        /\ UNCHANGED <<serialPort, isReading, readerRef, readableClosedRef>>
    ]_vars

----------------------------------------------------------------------------
(* Claims about the history stores (SpecPath, SpecPlant).                  *)

\* C3: after any sequence of decoded GPS tokens robotPath holds at most 100
\* points.
C3_PathAtMost100 == Len(robotPath) <= 100

\* C4: every decoded GPS token, fixed or not, appends its position, and
\* after n appends robotPath is exactly the last min(n, 100) positions
\* decoded, in arrival order.
C4_PathIsLast100 == robotPath = SliceLast(fixes, 100)

\* s back to front
Reversed(s) == [k \in 1..Len(s) |-> s[Len(s) + 1 - k]]

\* the planting log of the program that runs
HeldLog == IF program = "relay" THEN currentData.plantingLogs ELSE plantingLogs

\* C5: after any sequence of planting events the planting log of the
\* dashboard and of the relay holds at most 50 entries, newest first, and
\* they are the most recent min(n, 50) events: the one evicted is the oldest.
C5_LogIsNewest50 ==
    /\ Len(HeldLog) <= 50
    /\ HeldLog = Reversed(SliceLast(planted, 50))

C5_Witness ==
    /\ lastStep \in {"check", "data"}
    /\ Len(planted) > 50
    /\ Len(HeldLog) = 50
    /\ HeldLog[50] = planted[Len(planted) - 49]

StoredIds == {plantingMarkers[k].id : k \in 1..Len(plantingMarkers)}

\* C6: plantingMarkers never holds more than 100 markers; a marker still on
\* the map is in the store, so none has left the store unreleased; and the
\* marker a push evicts is the oldest one, released by that same step.
C6_MarkersReleased ==
    /\ [](Len(plantingMarkers) <= 100)
    /\ [](onMap \subseteq StoredIds)
    /\ [][(lastStep' = "check" /\ plantingMarkers' # plantingMarkers
              /\ Len(plantingMarkers) = 100) =>
            /\ Tail(plantingMarkers) = SubSeq(plantingMarkers', 1, 99)
            /\ mapCalls' = <<Head(plantingMarkers).id>>
            /\ Head(plantingMarkers).id \notin onMap']_vars

C6_Witness ==
    /\ lastStep = "check"
    /\ mapCalls # <<>>
    /\ Len(plantingMarkers) = 100
    /\ mapCalls[1] \notin onMap
    /\ mapCalls[1] < plantingMarkers[1].id

----------------------------------------------------------------------------
(* Claims about the decoding of one line (SpecTelemetry).                  *)

\* one entry with that outcome now heads the planting log
LoggedOnce(status) ==
    /\ Len(plantingLogs') = Len(plantingLogs) + 1
    /\ Tail(plantingLogs') = plantingLogs
    /\ Head(plantingLogs').status = status

\* one marker more is in the store and on the map
MarkedOnce ==
    /\ Len(plantingMarkers') = Len(plantingMarkers) + 1
    /\ SubSeq(plantingMarkers', 1, Len(plantingMarkers)) = plantingMarkers
    /\ Cardinality(onMap') = Cardinality(onMap) + 1

Envelope(read) == read[1].value

KeptOrReceived(f, data) ==
    currentData'[f] = IF f \in DOMAIN data THEN data[f] ELSE currentData[f]

\* C9: after a system_status envelope each of battery, temperature and
\* humidity equals the received value when the envelope carries the field,
\* 0 included, and keeps its previous value otherwise.
C9_StatusMerge ==
    [][(lastStep' = "data" /\ lastRead'[1].parses
          /\ Field(Envelope(lastRead'), "type") = "system_status") =>
        \A f \in {"battery", "temperature", "humidity"} :
            KeptOrReceived(f, Envelope(lastRead'))]_vars

\* no pattern of checkSerialConnection matches in the chunk
Unrecognized(chunk) ==
    /\ \A tag \in {"BAT", "HUM", "SOIL"} : MatchTag(chunk, tag, DigitChars) = NoMatch
    /\ MatchTag(chunk, "TEMP", FloatChars) = NoMatch
    /\ MatchGps(chunk) = NoFields
    /\ MatchPlant(chunk) = NoFields

\* the step read a chunk or a line that matches neither grammar
ReadUnrecognized ==
    \/ lastStep' = "check" /\ Unrecognized(lastRead')
    \/ lastStep' = "data" /\ ~lastRead'[1].parses

\* nothing is notified or broadcast, and the next line can be read
IgnoredQuietly ==
    /\ emitted' = <<>>
    /\ sent' = <<>>
    /\ mapCalls' = <<>>
    /\ program = "gps" => check'.pc = "idle" /\ IntervalRuns' = IntervalRuns
    /\ program = "relay" => relayPort' = "open"

\* C10 as stated: a line or chunk matching neither grammar leaves the whole
\* device state and all history stores unchanged, notifies and broadcasts
\* nothing, and the next line can be read.
C10_UnrecognizedChangesNothing ==
    [][ReadUnrecognized =>
        /\ IgnoredQuietly
        /\ UNCHANGED <<arduinoData, gpsSensorData, robotPosition, gpsData,
                       isPlanting, robotPath, plantingLogs, plantingMarkers,
                       onMap, currentData>>]_vars

\* C10 amended: such a line leaves the device state and the history stores
\* unchanged, notifies and broadcasts nothing, and the next line can be
\* read; in the GPS dashboard it resets isPlanting to false, as every chunk
\* without a PLANT token does.
C10_UnrecognizedResetsPlanting ==
    [][ReadUnrecognized =>
        /\ IgnoredQuietly
        /\ program = "gps" => isPlanting' = FALSE
        /\ UNCHANGED <<arduinoData, gpsSensorData, robotPosition, gpsData,
                       robotPath, plantingLogs, plantingMarkers,
                       onMap, currentData>>]_vars

\* a chunk of garbage was read right after a planting event
C10_Witness ==
    /\ lastStep = "check"
    /\ Unrecognized(lastRead)
    /\ plantingLogs # <<>>
    /\ plantingLogs[1].id = reads - 1
    /\ ~isPlanting
    /\ check.pc = "idle"

----------------------------------------------------------------------------
(* Claims about the sensor statuses and the end of the read loop          *)
(* (SpecLink).                                                             *)

\* C11: a sensor turns Online only through a record that names it, and at
\* the first such record: dht22Status through TEMP or HUM, soilSensorStatus
\* through SOIL.
C11_OnlineOnlyWhenNamed ==
    [][/\ (sensorData.dht22Status # "Online"
            /\ sensorData'.dht22Status = "Online") =>
              /\ lastStep' = "read"
              /\ HasTag(lastRead', "TEMP") \/ HasTag(lastRead', "HUM")
       /\ (sensorData.soilSensorStatus # "Online"
            /\ sensorData'.soilSensorStatus = "Online") =>
              /\ lastStep' = "read"
              /\ HasTag(lastRead', "SOIL")
       /\ (lastStep' = "read" /\ HasTag(lastRead', "TEMP")) =>
              sensorData'.dht22Status = "Online"]_vars

SensorStatuses ==
    {"dht22Status", "soilSensorStatus", "lightSensorStatus", "phSensorStatus",
     "obstacleSensorStatus"}

\* C12: a sensor status goes from Online to Offline only in the step of
\* disconnectArduino that resets the link; no record, read error, end of
\* stream or other step does it.
C12_OfflineOnlyByDisconnect ==
    [][\A f \in SensorStatuses :
          (sensorData[f] = "Online" /\ sensorData'[f] # "Online") =>
              lastStep' = "disconnectArduinoEnd"]_vars

\* an Online sensor has outlived a read error
C12_Witness ==
    /\ lastStep = "readError"
    /\ sensorData.dht22Status = "Online"
    /\ arduinoStatus.connection = "CONNECTED"

\* the read of a loop raised while nobody was disconnecting
TransportError ==
    /\ lastStep' = "readError"
    /\ disc.pc = "idle"
    /\ \E i \in ConnIds : /\ loop[i].pc = "reading" /\ loop'[i].pc # "reading"
                           /\ readerSt[i] = "locked"

\* C13: when reader.read() raises a transport error on a connected port, the
\* connection status no longer reads CONNECTED once readSerialData has
\* handled it.
C13_ReadErrorLeavesConnected ==
    [][(TransportError /\ arduinoStatus.connection = "CONNECTED") =>
          arduinoStatus'.connection # "CONNECTED"]_vars

\* C19: when requestPort failed and getPorts lists a granted port,
\* connectArduino goes on to open the most recently granted port and reports
\* that it uses an existing port; when getPorts lists none, it reports
\* 'Connection Failed' and leaves serialPort and arduinoStatus as they were.
C19_FallbackToLatestGrant ==
    [][lastStep' = "getPorts" =>
         IF granted # <<>>
         THEN /\ emitted' = <<"Using Existing Port">>
              /\ portCalls' = <<[call |-> "open", baud |-> BaudOptions[1],
                                 port |-> granted[Len(granted)]]>>
         ELSE /\ emitted' = <<"Connection Failed">>
              /\ portCalls' = <<>>
              /\ UNCHANGED <<serialPort, arduinoStatus>>]_vars

----------------------------------------------------------------------------
(* Claims about the relay's clients, commands and serial link (SpecRelay,  *)
(* SpecCommand).                                                           *)

\* C14: every notification handed to broadcastToClients is sent to every
\* client that is in wss.clients and open at that time, and a client is sent
\* nothing but the notification of the step, so that it gets the
\* notifications in the order they were emitted.
C14_DeliveredToEveryOpenClient ==
    [][sent' # <<>> =>
         \A c \in ClientIds :
            delivered'[c] = IF Receives(c) THEN sent' ELSE <<>>]_vars

\* C15: when the send to one client raises during a broadcast, every other
\* open client is still sent that notification and the relay does not crash.
C15_SendFailureIsolated ==
    [][raised' # 0 =>
         /\ \A c \in ClientIds :
               Receives(c) /\ c # raised' => delivered'[c] = sent'
         /\ ~crashed']_vars

\* C16: a client that is closing or closed is sent nothing by any later
\* step, also when it is still in wss.clients while a broadcast runs; no
\* send to it raises; and the close of a client that is closed already
\* changes nothing.
C16_ClosedClientGetsNothing ==
    [][/\ \A c \in ClientIds :
            readyState[c] \in {"closing", "closed"} =>
                delivered'[c] = <<>> /\ raised' # c
       /\ (lastStep' = "clientClose" /\ readyState' = readyState) =>
             UNCHANGED <<clients, currentData, relayPort, crashed,
                         retryTimers>>]_vars

C16_Witness ==
    /\ sent # <<>>
    /\ raised = 0
    /\ \E c, d \in ClientIds :
          /\ c \in Range(clients)
          /\ readyState[c] = "closing"
          /\ delivered[c] = <<>>
          /\ delivered[d] = sent

\* the state-change notifications of handleArduinoData
StateChange(messages) ==
    {k \in 1..Len(messages) :
        messages[k].type \in {"system_update", "planting_event"}}

\* C17: a line handled by the relay broadcasts exactly one state-change
\* notification if it changed a field of currentData, and none if it
\* changed no field.
C17_OneNotificationIffChanged ==
    [][lastStep' = "data" =>
         Cardinality(StateChange(sent')) =
            IF currentData' # currentData THEN 1 ELSE 0]_vars

IsCommand(message) ==
    message.parses /\ Field(message.value, "type") = "command"

\* C18: a command from a WebSocket client or from POST /api/command is
\* written to the serial port, as its text and one newline, exactly when the
\* port is open at that moment; with the port not open nothing is written,
\* the REST caller is answered 503 'Arduino not connected', and no later
\* step writes anything.
C18_CommandWrittenIffOpen ==
    [][/\ lastStep' = "message" =>
            written' = IF IsCommand(lastRead'[1]) /\ relayPort = "open"
                       THEN <<<<Field(lastRead'[1].value, "command"), "\n">>>>
                       ELSE <<>>
       /\ lastStep' = "postCommand" =>
            IF relayPort = "open"
            THEN /\ written' = <<<<Field(lastRead'[1], "command"), "\n">>>>
                 /\ reply'.success
            ELSE /\ written' = <<>>
                 /\ reply'.status = 503
                 /\ ~reply'.success
                 /\ reply'.message = <<"Arduino not connected">>
       /\ lastStep' \notin {"message", "postCommand"} => written' = <<>>]_vars

C18_Witness ==
    /\ lastStep = "postCommand"
    /\ relayPort = "down"
    /\ reply.status = 503
    /\ written = <<>>

\* C20: whenever the relay runs with its serial link down, after an error
\* as after a close, a timer is pending that will call initializeSerial
\* again.
C20_RetryPendingWhenDown ==
    (relayPort = "down" /\ ~crashed) => retryTimers > 0

----------------------------------------------------------------------------
(* Claims about the values held and the order of decoding.                 *)

StatusLines ==
    {line \in RelayLines :
        line.parses /\ Field(line.value, "type") = "system_status"}

\* the values a system_status line can store in field f of currentData
Decodable(f) == {OrDefault(line.value, f) : line \in StatusLines}

\* C21: while no line has been decoded, the battery, temperature and
\* humidity the relay holds are values that no decoded line can store.
C21_UndecodedIsUnknown ==
    (program = "relay" /\ reads = 0) =>
        \A f \in {"battery", "temperature", "humidity"} :
            currentData[f] \notin Decodable(f)

\* the port.open call of baud option k
OpenAt(k, p) == <<[call |-> "open", baud |-> BaudOptions[k], port |-> p]>>

C23_ReaderReleasedOnExit ==
    [][/\ \A i \in ConnIds :
            (loop[i].pc # "done" /\ loop'[i].pc = "done") =>
                readerRef' # i /\ isReading' = FALSE
       /\ lastStep' = "disconnectAfterCancel" => readerRef' = 0]_vars

\* the text is a decimal number from its first to its last character
ValidNumber(s) ==
    LET body == IF s # <<>> /\ Head(s) = "-" THEN Tail(s) ELSE s
        ip == Prefix(body, DigitChars)
        after == Drop(body, Len(ip))
        fd == IF after # <<>> /\ Head(after) = "." THEN Tail(after) ELSE <<>>
    IN  /\ ip # <<>> \/ fd # <<>>
        /\ after = <<>> \/ (Head(after) = "." /\ Prefix(fd, DigitChars) = fd)

\* C24: in the GPS dashboard no NaN is ever held as temperature or as a
\* coordinate of the position or of the path, and a TEMP token whose value is
\* not a valid number leaves the temperature as it was.
C24_InvalidNumberIgnored ==
    /\ [](/\ gpsSensorData.temperature # NaN
          /\ robotPosition.lat # NaN /\ robotPosition.lng # NaN
          /\ \A k \in 1..Len(robotPath) :
                robotPath[k].lat # NaN /\ robotPath[k].lng # NaN)
    /\ [][LET tempMatch == MatchTag(lastRead', "TEMP", FloatChars) IN
          (lastStep' = "check" /\ tempMatch # NoMatch
             /\ ~ValidNumber(tempMatch)) =>
                gpsSensorData'.temperature = gpsSensorData.temperature]_vars

\* the match of the last token of the chunk that carries the tag
LastMatchTag(chunk, tag, cls) == MatchTag(Reversed(chunk), tag, cls)

\* C25: after a read the battery level held is the value of the last BAT
\* token of the chunk, also when the chunk carries two of them.
C25_LastTokenWins ==
    [][LET batteryMatch == LastMatchTag(lastRead', "BAT", DigitChars) IN
       (lastStep' = "check" /\ batteryMatch # NoMatch) =>
           arduinoData'.batteryLevel = ParseInt(batteryMatch)]_vars

\* C26: the battery level the GPS dashboard holds is always in 0..100.
C26_BatteryInRange == arduinoData.batteryLevel \in 0..100

\* C27: a planting-log entry created by a read carries the robot position as
\* it is after that read: the latest fix decoded up to and including the
\* chunk with the PLANT token.
C27_LogAtLatestFix ==
    [][(program = "gps" /\ lastStep' = "check" /\ planted' # planted) =>
          planted'[Len(planted')].coordinates = robotPosition']_vars

----------------------------------------------------------------------------
(* Claims about the GPS dashboard's connection and detection.              *)

\* C28: when no connect is in flight, the GPS dashboard stores a port
\* exactly when arduinoData.isConnected.
C28_PortIffConnected ==
    (program = "gps" /\ gconn.pc = "idle") =>
        (gpsSerialPort # NoPort <=> arduinoData.isConnected)

\* the runDetection calls that are between their guard and their end
RunsInProgress == {r \in RunIds : detect[r].pc \notin {"idle", "done"}}

\* C29: at most one detection run is in progress at any time, a run called
\* while an earlier one has not finished returns without detecting, and
\* wireless detection starts only when USB detection left the state
\* disconnected.
C29_OneDetectionAtATime ==
    /\ [](program = "gps" => Cardinality(RunsInProgress) <= 1)
    /\ [][\A r \in RunIds :
            /\ (detect[r].pc = "idle" /\ detect'[r].pc # "idle"
                /\ RunsInProgress # {}) => detect'[r].pc = "done"
            /\ (detect[r].pc # "wireless" /\ detect'[r].pc = "wireless")
                => ~arduinoData'.isConnected]_vars

\* C30: while the GPS dashboard is disconnected its path, its planting log
\* and its marker store are empty and no marker is left on the map.
C30_NothingLeftWhenDisconnected ==
    (program = "gps" /\ ~arduinoData.isConnected) =>
        /\ robotPath = <<>>
        /\ plantingLogs = <<>>
        /\ plantingMarkers = <<>>
        /\ onMap = {}

====
